---- MODULE Spec2Model ----
(***************************************************************************)
(* git-rare (src/main.rs): classification of commit hashes by rarity, the  *)
(* parsing of `git log` lines into Commit records, the parallel collection *)
(* of the records and the dispatch of main over the command-line views.    *)
(*                                                                         *)
(* A Rust String / &str is modelled as a sequence of characters, so that   *)
(* take(9), rev(), contains() and split_whitespace() are computed          *)
(* character by character as the code computes them. A character is a      *)
(* one-character string; a character that a TLA+ string cannot hold (one   *)
(* outside ASCII, or a control character without an escape) is written by  *)
(* its code point, "U+00A0" for NO-BREAK SPACE, and is still one element   *)
(* of the sequence.                                                        *)
(***************************************************************************)
EXTENDS Integers, Sequences, FiniteSets, TLC

VARIABLES
    hash,        \* argument of Commit::get_rarity (classification run)
    rarity,      \* its result: <<>> before the call, <<Rarity>> after it
    line,        \* argument of parse_commit (parsing run)
    parsed,      \* its result: <<>> before the call, <<Option<Commit>>> after it
    pc,          \* position of main
    args,        \* CliArgs: [all, only, count]
    raw_output,  \* output of `git log`, a string
    tasks,       \* par_lines producers not yet folded by a worker
    results,     \* the Vec<Commit> of each producer a worker has folded
    commits,     \* Vec<Commit> collected at main.rs:215
    stdout       \* what main printed: messages and tables

vars == <<hash, rarity, line, parsed, pc, args, raw_output, tasks, results,
          commits, stdout>>

-----------------------------------------------------------------------------
(* Characters and strings                                                  *)

Digits == {"0", "1", "2", "3", "4", "5", "6", "7", "8", "9"}

LowerLetters == {"a", "b", "c", "d", "e", "f", "g", "h", "i", "j", "k", "l", "m",
                 "n", "o", "p", "q", "r", "s", "t", "u", "v", "w", "x", "y", "z"}

UpperLetters == {"A", "B", "C", "D", "E", "F", "G", "H", "I", "J", "K", "L", "M",
                 "N", "O", "P", "Q", "R", "S", "T", "U", "V", "W", "X", "Y", "Z"}

\* char::is_ascii_digit
is_ascii_digit(c) == c \in Digits

\* char::is_ascii_alphabetic
is_ascii_alphabetic(c) == c \in LowerLetters \cup UpperLetters

\* the characters with the Unicode property White_Space: U+0009..U+000D,
\* U+0020, U+0085, U+00A0, U+1680, U+2000..U+200A, U+2028, U+2029, U+202F,
\* U+205F, U+3000
WhiteSpace ==
    { "\t", "\n", "U+000B", "\f", "\r", " ", "U+0085", "U+00A0", "U+1680",
      "U+2000", "U+2001", "U+2002", "U+2003", "U+2004", "U+2005", "U+2006", "U+2007",
      "U+2008", "U+2009", "U+200A", "U+2028", "U+2029", "U+202F", "U+205F", "U+3000" }

\* char::is_whitespace
is_whitespace(c) == c \in WhiteSpace

\* Iterator::take(n) on chars(): the first n characters, fewer if the string is shorter
take(s, n) == SubSeq(s, 1, IF Len(s) < n THEN Len(s) ELSE n)

\* Iterator::rev on chars()
rev(s) == [i \in 1..Len(s) |-> s[Len(s) + 1 - i]]

\* Iterator::all, over the closure's value at each item
all(bs) == \A i \in 1..Len(bs) : bs[i]

\* str::contains with a string pattern
contains(s, pat) ==
    \E i \in 0..(Len(s) - Len(pat)) : SubSeq(s, i + 1, i + Len(pat)) = pat

\* the literal "999999999" of main.rs:142
NineNines == <<"9", "9", "9", "9", "9", "9", "9", "9", "9">>

\* the literal "abcdefghi" of main.rs:170
NineLetters == <<"a", "b", "c", "d", "e", "f", "g", "h", "i">>

\* the 9 of take(9) at main.rs:134, 138, 164, 167
TakeLen == 9

-----------------------------------------------------------------------------
(* UncommonExpl / RareExpl predicates, main.rs:132-172                      *)

is_starts_nine_digits(h) ==
    LET cs == take(h, TakeLen) IN all([i \in 1..Len(cs) |-> is_ascii_digit(cs[i])])

is_ends_nine_digits(h) ==
    LET cs == take(rev(h), TakeLen) IN all([i \in 1..Len(cs) |-> is_ascii_digit(cs[i])])

is_contains_nine_continuous_digits(h) == contains(h, NineNines)

is_starts_nine_letters(h) ==
    LET cs == take(h, TakeLen) IN all([i \in 1..Len(cs) |-> is_ascii_alphabetic(cs[i])])

is_ends_nine_letters(h) ==
    LET cs == take(rev(h), TakeLen) IN all([i \in 1..Len(cs) |-> is_ascii_alphabetic(cs[i])])

is_contains_nine_continuous_letters(h) == contains(h, NineLetters)

\* impl Display for UncommonExpl, main.rs:122-130
UncommonExpl_to_string(v) ==
    CASE v = "StartsNineDigits" -> "Starts with nine digits"
      [] v = "EndsNineDigits" -> "Ends with nine digits"
      [] v = "ContainsNineContDigits" -> "Contains nine continuous digits"

\* impl Display for RareExpl, main.rs:152-160
RareExpl_to_string(v) ==
    CASE v = "StartsNineLetters" -> "Starts with nine letters"
      [] v = "EndsNineLetters" -> "Ends with nine letters"
      [] v = "ContainsNineContLetters" -> "Contains nine continuous letters"

\* the three Rarity values built by get_rarity; percentage is the f64 literal
UncommonRarity(v) ==
    [tier |-> "Uncommon", percentage |-> "0.01", explanation |-> UncommonExpl_to_string(v)]

RareRarity(v) ==
    [tier |-> "Rare", percentage |-> "0.001", explanation |-> RareExpl_to_string(v)]

CommonRarity == [tier |-> "Common", percentage |-> "0.99", explanation |-> ""]

\* a slip that tests the substring rule before the prefix rule
get_rarity_substring_first(h) ==
    IF is_contains_nine_continuous_digits(h) THEN UncommonRarity("ContainsNineContDigits")
    ELSE IF is_starts_nine_digits(h) THEN UncommonRarity("StartsNineDigits")
    ELSE IF is_ends_nine_digits(h) THEN UncommonRarity("EndsNineDigits")
    ELSE IF is_starts_nine_letters(h) THEN RareRarity("StartsNineLetters")
    ELSE IF is_ends_nine_letters(h) THEN RareRarity("EndsNineLetters")
    ELSE IF is_contains_nine_continuous_letters(h) THEN RareRarity("ContainsNineContLetters")
    ELSE CommonRarity

\* a slip that requires nine characters to be present for the prefix rules
get_rarity_min_length(h) ==
    IF Len(h) >= TakeLen /\ is_starts_nine_digits(h) THEN UncommonRarity("StartsNineDigits")
    ELSE IF is_ends_nine_digits(h) THEN UncommonRarity("EndsNineDigits")
    ELSE IF is_contains_nine_continuous_digits(h) THEN UncommonRarity("ContainsNineContDigits")
    ELSE IF Len(h) >= TakeLen /\ is_starts_nine_letters(h) THEN RareRarity("StartsNineLetters")
    ELSE IF is_ends_nine_letters(h) THEN RareRarity("EndsNineLetters")
    ELSE IF is_contains_nine_continuous_letters(h) THEN RareRarity("ContainsNineContLetters")
    ELSE CommonRarity

\* a slip that swaps the two letter rules 4 and 5
get_rarity_swapped_letters(h) ==
    IF is_starts_nine_digits(h) THEN UncommonRarity("StartsNineDigits")
    ELSE IF is_ends_nine_digits(h) THEN UncommonRarity("EndsNineDigits")
    ELSE IF is_contains_nine_continuous_digits(h) THEN UncommonRarity("ContainsNineContDigits")
    ELSE IF is_ends_nine_letters(h) THEN RareRarity("EndsNineLetters")
    ELSE IF is_starts_nine_letters(h) THEN RareRarity("StartsNineLetters")
    ELSE IF is_contains_nine_continuous_letters(h) THEN RareRarity("ContainsNineContLetters")
    ELSE CommonRarity

\* Commit::get_rarity, main.rs:75-113: a chain of guarded match arms
get_rarity(h) ==
    IF is_starts_nine_digits(h) THEN UncommonRarity("StartsNineDigits")
    ELSE IF is_ends_nine_digits(h) THEN UncommonRarity("EndsNineDigits")
    ELSE IF is_contains_nine_continuous_digits(h) THEN UncommonRarity("ContainsNineContDigits")
    ELSE IF is_starts_nine_letters(h) THEN RareRarity("StartsNineLetters")
    ELSE IF is_ends_nine_letters(h) THEN RareRarity("EndsNineLetters")
    ELSE IF is_contains_nine_continuous_letters(h) THEN RareRarity("ContainsNineContLetters")
    ELSE CommonRarity

\* Commit::new, main.rs:66-73
Commit_new(h, author, datetime) ==
    [author |-> author, datetime |-> datetime, hash |-> h, rarity |-> get_rarity(h)]

-----------------------------------------------------------------------------
(* parse_commit, main.rs:174-186, and the library calls it makes           *)

RECURSIVE split_whitespace(_)
\* str::split_whitespace, collected: the maximal runs of non-whitespace characters
split_whitespace(s) ==
    IF s = <<>> THEN <<>>
    ELSE IF is_whitespace(Head(s)) THEN split_whitespace(Tail(s))
    ELSE LET stop == IF \E i \in 1..Len(s) : is_whitespace(s[i])
                     THEN (CHOOSE i \in 1..Len(s) :
                              /\ is_whitespace(s[i])
                              /\ \A j \in 1..(i - 1) : ~is_whitespace(s[j])) - 1
                     ELSE Len(s)
         IN  <<SubSeq(s, 1, stop)>> \o split_whitespace(SubSeq(s, stop + 1, Len(s)))

RECURSIVE join(_, _)
\* [&str]::join(sep)
join(v, sep) ==
    IF v = <<>> THEN <<>>
    ELSE IF Len(v) = 1 THEN v[1]
    ELSE v[1] \o sep \o join(Tail(v), sep)

DigitChars == <<"0", "1", "2", "3", "4", "5", "6", "7", "8", "9">>

DigitVal(c) == (CHOOSE i \in 1..10 : DigitChars[i] = c) - 1

RECURSIVE number(_)
\* value of a string of decimal digits
number(s) == IF s = <<>> THEN 0 ELSE 10 * number(SubSeq(s, 1, Len(s) - 1)) + DigitVal(s[Len(s)])

\* s[from..from+n-1] exists and is all digits
digits_at(s, from, n) == from + n - 1 <= Len(s) /\ \A i \in from..(from + n - 1) : s[i] \in Digits

char_at(s, i, c) == i <= Len(s) /\ s[i] = c

IsLeapYear(y) == (y % 4 = 0 /\ y % 100 # 0) \/ y % 400 = 0

DaysInMonth(y, m) ==
    IF m = 2 THEN (IF IsLeapYear(y) THEN 29 ELSE 28)
    ELSE IF m \in {4, 6, 9, 11} THEN 30 ELSE 31

\* number of leading digits of s from position `from`
digit_run(s, from) ==
    IF \E i \in from..Len(s) : s[i] \notin Digits
    THEN (CHOOSE i \in from..Len(s) :
             s[i] \notin Digits /\ \A j \in from..(i - 1) : s[j] \in Digits) - from
    ELSE Len(s) + 1 - from

RECURSIVE pow10(_)
pow10(n) == IF n = 0 THEN 1 ELSE 10 * pow10(n - 1)

\* chrono's scan::nanosecond: up to nine fractional digits count, the rest is skipped
nanosecond(ds) ==
    LET k == IF Len(ds) < 9 THEN Len(ds) ELSE 9
    IN  number(SubSeq(ds, 1, k)) * pow10(9 - k)

\* U+2212 MINUS SIGN, which chrono admits as the sign of an offset
MinusSign == "U+2212"

\* DateTime::parse_from_rfc3339(..).ok(), called at main.rs:181: <<>> is None.
\* YYYY-MM-DD, then 'T', 't' or a space, HH:MM:SS, an optional fraction, then
\* 'Z', 'z' or HH:MM after '+', '-' or U+2212, with nothing after it; the
\* fields are range-checked.
parse_from_rfc3339(s) ==
    IF ~( /\ digits_at(s, 1, 4) /\ char_at(s, 5, "-")
          /\ digits_at(s, 6, 2) /\ char_at(s, 8, "-")
          /\ digits_at(s, 9, 2)
          /\ (char_at(s, 11, "T") \/ char_at(s, 11, "t") \/ char_at(s, 11, " "))
          /\ digits_at(s, 12, 2) /\ char_at(s, 14, ":")
          /\ digits_at(s, 15, 2) /\ char_at(s, 17, ":")
          /\ digits_at(s, 18, 2) )
    THEN <<>>
    ELSE
      LET year == number(SubSeq(s, 1, 4))
          month == number(SubSeq(s, 6, 7))
          day == number(SubSeq(s, 9, 10))
          hour == number(SubSeq(s, 12, 13))
          minute == number(SubSeq(s, 15, 16))
          second == number(SubSeq(s, 18, 19))
          hasFrac == char_at(s, 20, ".")
          fracLen == IF hasFrac THEN digit_run(s, 21) ELSE 0
          nano == IF hasFrac THEN nanosecond(SubSeq(s, 21, 20 + fracLen)) ELSE 0
          o == IF hasFrac THEN 21 + fracLen ELSE 20   \* where the offset starts
          zulu == Len(s) = o /\ s[o] \in {"Z", "z"}
          numeric == /\ Len(s) = o + 5
                     /\ s[o] \in {"+", "-", MinusSign}
                     /\ digits_at(s, o + 1, 2) /\ char_at(s, o + 3, ":")
                     /\ digits_at(s, o + 4, 2)
          offHours == number(SubSeq(s, o + 1, o + 2))
          offMinutes == number(SubSeq(s, o + 4, o + 5))
          offset == IF zulu THEN 0
                    ELSE (IF s[o] \in {"-", MinusSign} THEN -1 ELSE 1)
                             * (offHours * 3600 + offMinutes * 60)
      IN  IF /\ (hasFrac => fracLen >= 1)
             /\ (zulu \/ (numeric /\ offHours <= 23 /\ offMinutes <= 59))
             /\ month \in 1..12
             /\ day \in 1..DaysInMonth(year, month)
             /\ hour <= 23 /\ minute <= 59 /\ second <= 60
          THEN << [year |-> year, month |-> month, day |-> day, hour |-> hour,
                   minute |-> minute,
                   second |-> IF second = 60 THEN 59 ELSE second,     \* leap second
                   nanosecond |-> IF second = 60 THEN 1000000000 + nano ELSE nano,
                   offset |-> offset] >>
          ELSE <<>>

\* a slip that rejects a line without an author token
parse_commit_author_required(l) ==
    LET parts == split_whitespace(l)
    IN  IF Len(parts) >= 3 /\ parse_from_rfc3339(parts[2]) # <<>>
        THEN << Commit_new(parts[1], join(SubSeq(parts, 3, Len(parts)), <<" ">>),
                           parse_from_rfc3339(parts[2])[1]) >>
        ELSE <<>>

\* parse_commit, main.rs:174-186: Option<Commit>, <<>> is None and <<c>> is Some(c)
parse_commit(l) ==
    LET parts == split_whitespace(l)
        hashTok == IF Len(parts) >= 1 THEN <<parts[1]>> ELSE <<>>       \* parts.next()
        datetimeTok == IF Len(parts) >= 2 THEN <<parts[2]>> ELSE <<>>   \* parts.next()
        author == join(SubSeq(parts, 3, Len(parts)), <<" ">>)
    IN  IF hashTok # <<>> /\ datetimeTok # <<>>
        THEN LET datetime == parse_from_rfc3339(datetimeTok[1])
             IN  IF datetime = <<>> THEN <<>>        \* .ok()?
                 ELSE << Commit_new(hashTok[1], author, datetime[1]) >>
        ELSE <<>>

-----------------------------------------------------------------------------
(* Inputs of the classification run                                        *)

\* number of pieces a sample hash is concatenated from
MaxPieces == 3

\* length up to which every string over ShortAlphabet is a sample hash
MaxShort == 3

HashPieces ==
    { NineNines, NineLetters, <<"a", "b", "c">>, <<"1", "2", "3">>,
      <<"a">>, <<"1">>, <<"F">>, <<"-">> }

RECURSIVE Concatenations(_, _)
\* all concatenations of at most n elements of the set of strings S
Concatenations(S, n) ==
    IF n = 0 THEN { <<>> }
    ELSE LET shorter == Concatenations(S, n - 1)
         IN  shorter \cup { p \o q : p \in S, q \in shorter }

ShortAlphabet == {"7", "9", "b", "Q", "_"}

RECURSIVE StringsUpTo(_, _)
\* all strings of length at most n over the alphabet A
StringsUpTo(A, n) ==
    IF n = 0 THEN { <<>> }
    ELSE LET shorter == StringsUpTo(A, n - 1)
         IN  shorter \cup { <<c>> \o q : c \in A, q \in shorter }

\* the strings c, cc, ..., of lengths 1 to 8, for one digit and one letter
UniformShort == { [i \in 1..n |-> c] : n \in 1..(TakeLen - 1), c \in {"4", "e"} }

\* the hash of the comment at main.rs:207
ExampleHash ==
    <<"e", "8", "3", "c", "5", "1", "6", "3", "3", "1", "6", "f", "8", "9", "b", "f",
      "b", "d", "e", "7", "d", "9", "a", "b", "2", "3", "c", "a", "2", "e", "2", "5",
      "6", "0", "4", "a", "f", "2", "9", "0">>

Hashes ==
    Concatenations(HashPieces, MaxPieces) \cup StringsUpTo(ShortAlphabet, MaxShort)
        \cup UniformShort \cup { ExampleHash }

\* values of main's variables while only get_rarity or parse_commit is exercised
NoArgs == [all |-> FALSE, only |-> "None", count |-> FALSE]

MainIdle ==
    /\ pc = "off"
    /\ args = NoArgs
    /\ raw_output = <<>>
    /\ tasks = {}
    /\ results = {}
    /\ commits = <<>>
    /\ stdout = <<>>

mainVars == <<pc, args, raw_output, tasks, results, commits, stdout>>

InitClassify ==
    /\ hash \in Hashes
    /\ rarity = <<>>
    /\ line = <<>>
    /\ parsed = <<>>
    /\ MainIdle

\* one call of Commit::get_rarity(hash), main.rs:75
Classify ==
    /\ rarity = <<>>
    /\ rarity' = <<get_rarity(hash)>>
    /\ UNCHANGED <<hash, line, parsed, mainVars>>

NextClassify == Classify

SpecClassify == InitClassify /\ [][NextClassify]_vars

Classified == rarity # <<>>

-----------------------------------------------------------------------------
(* The rule table of the classification, stated over positions             *)

Min(a, b) == IF a < b THEN a ELSE b

Max(a, b) == IF a > b THEN a ELSE b

FirstNine(h) == 1..Min(9, Len(h))

LastNine(h) == Max(1, Len(h) - 8)..Len(h)

HasRun(h, run) == \E i \in 1..(Len(h) - 8) : \A k \in 1..9 : h[i + k - 1] = run[k]

RuleMatches(n, h) ==
    CASE n = 1 -> \A i \in FirstNine(h) : h[i] \in Digits
      [] n = 2 -> \A i \in LastNine(h) : h[i] \in Digits
      [] n = 3 -> HasRun(h, [k \in 1..9 |-> "9"])
      [] n = 4 -> \A i \in FirstNine(h) : h[i] \in LowerLetters \cup UpperLetters
      [] n = 5 -> \A i \in LastNine(h) : h[i] \in LowerLetters \cup UpperLetters
      [] n = 6 -> HasRun(h, <<"a", "b", "c", "d", "e", "f", "g", "h", "i">>)
      [] n = 7 -> TRUE

RuleTier(n) == IF n <= 3 THEN "Uncommon" ELSE IF n <= 6 THEN "Rare" ELSE "Common"

RuleExplanation(n) ==
    CASE n = 1 -> "Starts with nine digits"
      [] n = 2 -> "Ends with nine digits"
      [] n = 3 -> "Contains nine continuous digits"
      [] n = 4 -> "Starts with nine letters"
      [] n = 5 -> "Ends with nine letters"
      [] n = 6 -> "Contains nine continuous letters"
      [] n = 7 -> ""

LowestRule(h) == CHOOSE n \in 1..7 : RuleMatches(n, h) /\ \A m \in 1..(n - 1) : ~RuleMatches(m, h)

\* C1: get_rarity returns the tier and explanation of the lowest-numbered
\* matching rule of the ordered table 1..7; in particular a hash whose first
\* nine characters are decimal digits is Uncommon, "Starts with nine digits",
\* whatever other rules it matches.
C1_FirstMatchingRuleWins ==
    Classified =>
        /\ rarity[1].tier = RuleTier(LowestRule(hash))
        /\ rarity[1].explanation = RuleExplanation(LowestRule(hash))
        /\ (Len(hash) >= 9 /\ \A i \in 1..9 : hash[i] \in Digits) =>
               /\ rarity[1].tier = "Uncommon"
               /\ rarity[1].explanation = "Starts with nine digits"

\* a classified hash that matches rules 2 and 3 but not rule 1: rule 2 wins
C1_Witness ==
    /\ Classified
    /\ ~RuleMatches(1, hash) /\ RuleMatches(2, hash) /\ RuleMatches(3, hash)
    /\ rarity[1].explanation = "Ends with nine digits"

Hash999abc == <<"9", "9", "9", "9", "9", "9", "9", "9", "9", "a", "b", "c">>

\* C2 as amended: get_rarity("999999999abc") is Uncommon with "Starts with
\* nine digits" (rule 1), because its first nine characters are all digits;
\* rule 2 does not match and rule 3, which also matches, has lower priority.
C2_StartsWithNineDigits ==
    (Classified /\ hash = Hash999abc) =>
        /\ rarity[1].tier = "Uncommon"
        /\ rarity[1].explanation = "Starts with nine digits"
        /\ RuleMatches(1, hash) /\ ~RuleMatches(2, hash) /\ RuleMatches(3, hash)

C2_Witness ==
    /\ Classified
    /\ hash = Hash999abc
    /\ rarity[1] = [tier |-> "Uncommon", percentage |-> "0.01",
                    explanation |-> "Starts with nine digits"]

\* C2 as stated: get_rarity("999999999abc") is Uncommon with "Contains nine
\* continuous digits" (rule 3), rules 1 and 2 not matching that hash.
C2_AsStated ==
    (Classified /\ hash = Hash999abc) =>
        /\ rarity[1].tier = "Uncommon"
        /\ rarity[1].explanation = "Contains nine continuous digits"
        /\ ~RuleMatches(1, hash) /\ ~RuleMatches(2, hash)

HasDigit(h) == \E i \in 1..Len(h) : h[i] \in Digits

HasLetter(h) == \E i \in 1..Len(h) : h[i] \in LowerLetters \cup UpperLetters

\* C3: for a hash of fewer than nine characters the prefix and suffix checks
\* range over the characters present: the empty hash and every all-digit
\* hash is Uncommon "Starts with nine digits", every non-empty all-letter
\* hash is Rare "Starts with nine letters", and a hash that mixes digits and
\* letters is Common.
C3_ShortHashVacuousTruth ==
    (Classified /\ Len(hash) < 9) =>
        /\ (\A i \in 1..Len(hash) : hash[i] \in Digits) =>
               /\ rarity[1].tier = "Uncommon"
               /\ rarity[1].explanation = "Starts with nine digits"
        /\ (Len(hash) >= 1 /\ \A i \in 1..Len(hash) : hash[i] \in LowerLetters \cup UpperLetters) =>
               /\ rarity[1].tier = "Rare"
               /\ rarity[1].explanation = "Starts with nine letters"
        /\ (HasDigit(hash) /\ HasLetter(hash)) =>
               /\ rarity[1].tier = "Common"
               /\ rarity[1].explanation = ""

\* the empty hash has been classified, by the check over its empty prefix
C3_Witness ==
    /\ Classified
    /\ hash = <<>>
    /\ rarity[1].tier = "Uncommon"
    /\ rarity[1].explanation = "Starts with nine digits"

-----------------------------------------------------------------------------
(* Inputs of the parsing run                                               *)

HashAbc123 == <<"a", "b", "c", "1", "2", "3">>

HashDigits == <<"1", "2", "3", "4", "5", "6", "7", "8", "9", "f">>

HashLetters == <<"d", "e", "a", "d", "b", "e", "e", "f", "c", "a", "f", "e">>

\* the timestamp of the comment at main.rs:207
StampPlain ==
    <<"2", "0", "2", "4", "-", "0", "9", "-", "2", "8", "T", "1", "7", ":", "4",
      "5", ":", "4", "7", "+", "0", "0", ":", "0", "0">>

StampFraction ==
    <<"2", "0", "2", "0", "-", "0", "2", "-", "2", "9", "t", "0", "8", ":", "0",
      "5", ":", "0", "9", ".", "2", "5", "-", "0", "7", ":", "3", "0">>

StampZulu ==
    <<"2", "0", "2", "4", "-", "0", "9", "-", "2", "8", "T", "1", "7", ":", "4",
      "5", ":", "4", "7", "Z">>

\* 2023 has no 29 February
StampNoFeb29 ==
    <<"2", "0", "2", "3", "-", "0", "2", "-", "2", "9", "T", "1", "2", ":", "0",
      "0", ":", "0", "0", "Z">>

\* a local datetime without an offset
StampNoOffset ==
    <<"2", "0", "2", "4", "-", "0", "9", "-", "2", "8", "T", "1", "7", ":", "4",
      "5", ":", "4", "7">>

WordJohn == <<"J", "o", "h", "n">>

WordDoe == <<"D", "o", "e">>

\* an offset written with U+2212 MINUS SIGN
StampMinusSign ==
    <<"2", "0", "2", "4", "-", "0", "9", "-", "2", "8", "T", "1", "7", ":", "4",
      "5", ":", "4", "7", "U+2212", "0", "7", ":", "0", "0">>

Tokens ==
    { HashAbc123, HashDigits, StampFraction, StampMinusSign, StampNoFeb29, StampNoOffset,
      WordJohn, WordDoe }

\* number of tokens of a sample line
MaxTokens == 4

\* the whitespace before, between and after the tokens of a sample line
Spacings ==
    { [lead |-> <<>>, sep |-> <<" ">>, trail |-> <<>>],
      [lead |-> <<" ">>, sep |-> <<" ", " ">>, trail |-> <<"\t">>],
      [lead |-> <<"U+3000">>, sep |-> <<"\f", "U+00A0">>, trail |-> <<"\r">>] }

RECURSIVE TokenLists(_)
TokenLists(n) ==
    IF n = 0 THEN { <<>> }
    ELSE LET shorter == TokenLists(n - 1)
         IN  shorter \cup { <<t>> \o q : t \in Tokens, q \in shorter }

Lines == { sp.lead \o join(ts, sp.sep) \o sp.trail : ts \in TokenLists(MaxTokens), sp \in Spacings }

InitParse ==
    /\ line \in Lines
    /\ parsed = <<>>
    /\ hash = <<>>
    /\ rarity = <<>>
    /\ MainIdle

\* one call of parse_commit(line), main.rs:174
Parse ==
    /\ parsed = <<>>
    /\ parsed' = <<parse_commit(line)>>
    /\ UNCHANGED <<line, hash, rarity, mainVars>>

NextParse == Parse

SpecParse == InitParse /\ [][NextParse]_vars

Parsed == parsed # <<>>

\* positions of the line at which a token starts
TokenStarts(l) == { i \in 1..Len(l) : ~is_whitespace(l[i]) /\ (i = 1 \/ is_whitespace(l[i - 1])) }

NumTokens(l) == Cardinality(TokenStarts(l))

\* the k-th whitespace-separated token of the line, 1 <= k <= NumTokens(l)
Token(l, k) ==
    LET from == CHOOSE i \in TokenStarts(l) : Cardinality({ j \in TokenStarts(l) : j < i }) = k - 1
        to == CHOOSE e \in from..Len(l) :
                  /\ \A j \in from..e : ~is_whitespace(l[j])
                  /\ (e = Len(l) \/ is_whitespace(l[e + 1]))
    IN  SubSeq(l, from, to)

\* the sample timestamps DateTime::parse_from_rfc3339 accepts: RFC 3339
\* datetimes with offset, and chrono's U+2212 spelling of the offset sign
ValidStamps == { StampPlain, StampFraction, StampMinusSign, StampZulu }

\* the datetime each of them denotes
StampValue(t) ==
    IF t \in { StampPlain, StampZulu }
    THEN [year |-> 2024, month |-> 9, day |-> 28, hour |-> 17, minute |-> 45,
          second |-> 47, nanosecond |-> 0, offset |-> 0]
    ELSE IF t = StampMinusSign
    THEN [year |-> 2024, month |-> 9, day |-> 28, hour |-> 17, minute |-> 45,
          second |-> 47, nanosecond |-> 0, offset |-> -25200]
    ELSE [year |-> 2020, month |-> 2, day |-> 29, hour |-> 8, minute |-> 5,
          second |-> 9, nanosecond |-> 250000000, offset |-> -27000]

\* a is the tokens from..NumTokens(l) of l joined by single spaces
JoinedBySingleSpaces(a, l, from) ==
    /\ NumTokens(a) = Max(0, NumTokens(l) - from + 1)
    /\ \A k \in 1..NumTokens(a) : Token(a, k) = Token(l, k + from - 1)
    /\ \A i \in 1..Len(a) : is_whitespace(a[i]) =>
           a[i] = " " /\ 1 < i /\ i < Len(a) /\ ~is_whitespace(a[i + 1])

-----------------------------------------------------------------------------
(* main, main.rs:200-260                                                   *)

RarityTiers == {"Common", "Uncommon", "Rare"}

\* CliArgs as clap accepts them, main.rs:13-22: --count conflicts with --all
\* and with --only; --all and --only may be given together
AcceptedArgs ==
    { a \in [all : BOOLEAN, only : {"None"} \cup RarityTiers, count : BOOLEAN] :
        a.count => (~a.all /\ a.only = "None") }

\* #[derive(Display)] of RarityTier, main.rs:46-51
RarityTier_to_string(t) ==
    CASE t = "Common" -> "Common"
      [] t = "Uncommon" -> "Uncommon"
      [] t = "Rare" -> "Rare"

\* println!(text)
Println(text) == [kind |-> "line", text |-> text]

\* print_table, main.rs:188-198: the table of the rows, then the duration line
print_table(rows) == << [kind |-> "table", rows |-> rows], [kind |-> "duration"] >>

RECURSIVE split(_, _)
\* str::split(sep) for a one-character separator: n separators give n + 1 pieces
split(s, sep) ==
    IF \E i \in 1..Len(s) : s[i] = sep
    THEN LET i == CHOOSE i \in 1..Len(s) : s[i] = sep /\ \A j \in 1..(i - 1) : s[j] # sep
         IN  <<SubSeq(s, 1, i - 1)>> \o split(SubSeq(s, i + 1, Len(s)), sep)
    ELSE <<s>>

\* the map of rayon's Lines: a trailing '\r' is removed from each piece
strip_cr(piece) ==
    IF piece # <<>> /\ piece[Len(piece)] = "\r" THEN SubSeq(piece, 1, Len(piece) - 1) ELSE piece

RECURSIVE filter_map(_)
\* Iterator::filter_map, over the closure's Option at each item: the Some values in order
filter_map(opts) ==
    IF opts = <<>> THEN <<>> ELSE Head(opts) \o filter_map(Tail(opts))

\* the producer par_lines starts from: the whole string as one split-terminator
\* producer, whose last piece is dropped when the string ends with the terminator
root_producer(s) ==
    [lo |-> 1, hi |-> Len(s), skip_last |-> (s = <<>> \/ s[Len(s)] = "\n")]

\* the pieces a producer yields when a worker folds it sequentially
producer_pieces(s, t) ==
    LET all_pieces == split(SubSeq(s, t.lo, t.hi), "\n")
    IN  IF t.skip_last THEN SubSeq(all_pieces, 1, Len(all_pieces) - 1) ELSE all_pieces

\* one worker folding one producer: par_lines().filter_map(parse_commit), main.rs:215
fold_producer(s, t) ==
    LET ps == producer_pieces(s, t)
        xs == [i \in 1..Len(ps) |-> strip_cr(ps[i])]
    IN  filter_map([i \in 1..Len(xs) |-> parse_commit(xs[i])])

RECURSIVE concat_in_order(_)
\* a slip that appends the per-producer vectors in the reverse of input order
concat_last_first(rs) ==
    IF rs = {} THEN <<>>
    ELSE LET last == CHOOSE r \in rs : \A q \in rs : q.lo <= r.lo
         IN  last.out \o concat_in_order(rs \ {last})

\* collect::<Vec<Commit>>(): the per-producer vectors appended in input order
concat_in_order(rs) ==
    IF rs = {} THEN <<>>
    ELSE LET first == CHOOSE r \in rs : \A q \in rs : r.lo <= q.lo
         IN  first.out \o concat_in_order(rs \ {first})

\* a slip that collects the kept records last first
only_commits_reversed(cs, only) == rev(SelectSeq(cs, LAMBDA c : c.rarity.tier = only))

\* main.rs:220-224: commits.par_iter().filter(|c| c.rarity.tier == only).cloned().collect()
only_commits(cs, only) == SelectSeq(cs, LAMBDA c : c.rarity.tier = only)

\* a slip that keeps the rare records only
not_common_commits_rare_only(cs) == SelectSeq(cs, LAMBDA c : c.rarity.tier = "Rare")

\* main.rs:248-252: commits.par_iter().filter(|c| c.rarity.tier != Common).cloned().collect()
not_common_commits(cs) == SelectSeq(cs, LAMBDA c : c.rarity.tier # "Common")

\* a slip that counts the not-common records as uncommon
Count_uncommon_includes_rare(cs) ==
    [total |-> Len(cs),
     common |-> Len(SelectSeq(cs, LAMBDA c : c.rarity.tier = "Common")),
     uncommon |-> Len(SelectSeq(cs, LAMBDA c : c.rarity.tier # "Common")),
     rare |-> Len(SelectSeq(cs, LAMBDA c : c.rarity.tier = "Rare"))]

\* the Count built at main.rs:231-245
Count(cs) ==
    [total |-> Len(cs),
     common |-> Len(SelectSeq(cs, LAMBDA c : c.rarity.tier = "Common")),
     uncommon |-> Len(SelectSeq(cs, LAMBDA c : c.rarity.tier = "Uncommon")),
     rare |-> Len(SelectSeq(cs, LAMBDA c : c.rarity.tier = "Rare"))]

\* number of lines of a sample `git log` output
MaxLines == 3

\* hash, timestamp and author (a no-break space in the name; a U+2212 offset
\* sign); hash and timestamp; a second uncommon hash, of another author; a
\* hash alone; an empty line
SampleLines ==
    { HashAbc123 \o <<" ">> \o StampZulu \o <<" ">> \o WordJohn \o <<"U+00A0">> \o WordDoe,
      HashDigits \o <<" ">> \o StampPlain \o <<" ">> \o WordJohn,
      HashLetters \o <<" ">> \o StampMinusSign \o <<"\r">>,
      <<"a">> \o NineNines \o <<"a", " ">> \o StampZulu \o <<" ">> \o WordDoe,
      HashAbc123,
      <<>> }

RECURSIVE LineLists(_)
LineLists(n) ==
    IF n = 0 THEN { <<>> }
    ELSE LET shorter == LineLists(n - 1)
         IN  shorter \cup { <<l>> \o q : l \in SampleLines, q \in shorter }

\* the outputs of `git log`: sample lines separated by newlines
Blobs == { join(ls, <<"\n">>) : ls \in LineLists(MaxLines) }

Init ==
    /\ pc = "start"
    /\ args \in AcceptedArgs
    /\ raw_output \in Blobs
    /\ tasks = {}
    /\ results = {}
    /\ commits = <<>>
    /\ stdout = <<>>
    /\ hash = <<>>
    /\ rarity = <<>>
    /\ line = <<>>
    /\ parsed = <<>>

unitVars == <<hash, rarity, line, parsed>>

\* main.rs:208-212: the log is empty
NoCommits ==
    /\ pc = "start"
    /\ raw_output = <<>>
    /\ stdout' = <<Println("No commits found.")>>
    /\ pc' = "done"
    /\ UNCHANGED <<args, raw_output, tasks, results, commits, unitVars>>

\* main.rs:215: the parallel iterator starts with one producer over the whole log
ParLines ==
    /\ pc = "start"
    /\ raw_output # <<>>
    /\ tasks' = { root_producer(raw_output) }
    /\ pc' = "par_lines"
    /\ UNCHANGED <<args, raw_output, results, commits, stdout, unitVars>>

\* a producer is split at a newline into the part before and the part after it
SplitProducer ==
    /\ pc = "par_lines"
    /\ \E t \in tasks : \E i \in t.lo..t.hi :
          /\ raw_output[i] = "\n"
          /\ tasks' = (tasks \ {t}) \cup
                        { [lo |-> t.lo, hi |-> i - 1, skip_last |-> FALSE],
                          [lo |-> i + 1, hi |-> t.hi, skip_last |-> t.skip_last] }
    /\ UNCHANGED <<pc, args, raw_output, results, commits, stdout, unitVars>>

\* a worker folds one producer; the workers finish in any order
FoldProducer ==
    /\ pc = "par_lines"
    /\ \E t \in tasks :
          /\ tasks' = tasks \ {t}
          /\ results' = results \cup { [lo |-> t.lo, out |-> fold_producer(raw_output, t)] }
    /\ UNCHANGED <<pc, args, raw_output, commits, stdout, unitVars>>

\* every producer is folded: collect() appends their vectors into the Vec<Commit>
Collect ==
    /\ pc = "par_lines"
    /\ tasks = {}
    /\ commits' = concat_in_order(results)
    /\ results' = {}
    /\ pc' = "dispatch"
    /\ UNCHANGED <<args, raw_output, tasks, stdout, unitVars>>

\* what the branch of main.rs:217-218 prints
all_output(cs) == print_table(cs)

\* a slip that reports an empty tier with the general message
only_output_general_message(cs, only) ==
    IF only_commits(cs, only) = <<>>
    THEN <<Println("No commits found.")>>
    ELSE print_table(only_commits(cs, only))

\* what the branch of main.rs:219-229 prints
only_output(cs, only) ==
    IF only_commits(cs, only) = <<>>
    THEN <<Println("No " \o RarityTier_to_string(only) \o " commits found.")>>
    ELSE print_table(only_commits(cs, only))

\* what the branch of main.rs:230-246 prints
count_output(cs) == print_table(<<Count(cs)>>)

\* what the branch of main.rs:247-259 prints
default_output(cs) ==
    IF not_common_commits(cs) = <<>>
    THEN <<Println("No uncommon or rare commits found.")>>
    ELSE print_table(not_common_commits(cs))

\* a slip that drops `&& args.only.is_none()` from the first branch
ViewAll_ignoring_only ==
    /\ pc = "dispatch"
    /\ args.all
    /\ stdout' = all_output(commits)
    /\ pc' = "done"
    /\ UNCHANGED <<args, raw_output, tasks, results, commits, unitVars>>

\* main.rs:217-218: --all without --only
ViewAll ==
    /\ pc = "dispatch"
    /\ args.all /\ args.only = "None"
    /\ stdout' = all_output(commits)
    /\ pc' = "done"
    /\ UNCHANGED <<args, raw_output, tasks, results, commits, unitVars>>

\* main.rs:219-229: --only, with or without --all
ViewOnly ==
    /\ pc = "dispatch"
    /\ ~(args.all /\ args.only = "None")
    /\ args.only # "None"
    /\ stdout' = only_output(commits, args.only)
    /\ pc' = "done"
    /\ UNCHANGED <<args, raw_output, tasks, results, commits, unitVars>>

\* main.rs:230-246: --count
ViewCount ==
    /\ pc = "dispatch"
    /\ ~(args.all /\ args.only = "None")
    /\ args.only = "None"
    /\ args.count
    /\ stdout' = count_output(commits)
    /\ pc' = "done"
    /\ UNCHANGED <<args, raw_output, tasks, results, commits, unitVars>>

\* main.rs:247-259: no view requested
ViewDefault ==
    /\ pc = "dispatch"
    /\ ~(args.all /\ args.only = "None")
    /\ args.only = "None"
    /\ ~args.count
    /\ stdout' = default_output(commits)
    /\ pc' = "done"
    /\ UNCHANGED <<args, raw_output, tasks, results, commits, unitVars>>

Next ==
    \/ NoCommits
    \/ ParLines
    \/ SplitProducer
    \/ FoldProducer
    \/ Collect
    \/ ViewAll
    \/ ViewOnly
    \/ ViewCount
    \/ ViewDefault

Spec == Init /\ [][Next]_vars

-----------------------------------------------------------------------------
(* Properties of the views                                                 *)

\* the i-th smallest element of a set of positions
Kth(K, i) == CHOOSE j \in K : Cardinality({ m \in K : m < j }) = i - 1

\* out is the subsequence of C at exactly the positions K, in the order of C
SubsequenceAt(out, C, K) ==
    /\ Len(out) = Cardinality(K)
    /\ \A i \in 1..Len(out) : out[i] = C[Kth(K, i)]

TierPositions(C, T) == { j \in 1..Len(C) : C[j].rarity.tier = T }

Range(f) == { f[i] : i \in DOMAIN f }

\* the rows of the table main printed, no rows when it printed a message
PrintedRows == IF stdout # <<>> /\ stdout[1].kind = "table" THEN stdout[1].rows ELSE <<>>

PrintedTable == Len(stdout) = 2 /\ stdout[1].kind = "table" /\ stdout[2].kind = "duration"

PrintedMessage(text) == stdout = << [kind |-> "line", text |-> text] >>

Finished == pc = "done" /\ raw_output # <<>>

\* C5: the count summary of --count has total = len(C) and
\* total = common + uncommon + rare, each per-tier count being the number of
\* records of that tier, for every collection C, the empty one included.
C5_CountSummary ==
    (Finished /\ args.count) =>
        /\ PrintedTable
        /\ Len(PrintedRows) = 1
        /\ LET c == PrintedRows[1]
           IN  /\ c.total = Len(commits)
               /\ c.total = c.common + c.uncommon + c.rare
               /\ c.common = Cardinality(TierPositions(commits, "Common"))
               /\ c.uncommon = Cardinality(TierPositions(commits, "Uncommon"))
               /\ c.rare = Cardinality(TierPositions(commits, "Rare"))

\* the count summary of a collection with one record of each tier was printed
C5_Witness ==
    /\ Finished /\ args.count
    /\ PrintedRows = << [total |-> 3, common |-> 1, uncommon |-> 1, rare |-> 1] >>

CountField(c, T) ==
    CASE T = "Common" -> c.common
      [] T = "Uncommon" -> c.uncommon
      [] T = "Rare" -> c.rare

C6_OnlyState ==
    (Finished /\ args.only # "None") =>
        /\ SubsequenceAt(PrintedRows, commits, TierPositions(commits, args.only))
        /\ \A i \in 1..Len(PrintedRows) : PrintedRows[i].rarity.tier = args.only
        /\ Len(PrintedRows) = CountField(Count(commits), args.only)

\* C6: the --only T filter returns exactly the records of C whose tier is T,
\* in their original relative order; its length is the field for T of the
\* count summary of C; and the view leaves C as it was.
C6_OnlyFilter == [](C6_OnlyState) /\ [][pc = "dispatch" => commits' = commits]_vars

\* --only Uncommon printed two different uncommon records, which stand on
\* either side of a common one, in the order of the collection
C6_Witness ==
    /\ Finished /\ args.only = "Uncommon"
    /\ Len(commits) = 3
    /\ commits[1].rarity.tier = "Uncommon"
    /\ commits[2].rarity.tier = "Common"
    /\ commits[3].rarity.tier = "Uncommon"
    /\ commits[1] # commits[3]
    /\ PrintedRows = << commits[1], commits[3] >>

\* C7: the default view is the subsequence of C, in original order, of
\* exactly the records that appear in the Uncommon filter or in the Rare
\* filter; it holds no Common record and its length is uncommon + rare of
\* the count summary.
C7_NotCommonView ==
    (Finished /\ ~args.all /\ args.only = "None" /\ ~args.count) =>
        LET inFilters == Range(only_commits(commits, "Uncommon"))
                             \cup Range(only_commits(commits, "Rare"))
        IN  /\ SubsequenceAt(PrintedRows, commits,
                             { j \in 1..Len(commits) : commits[j] \in inFilters })
            /\ \A i \in 1..Len(PrintedRows) : PrintedRows[i].rarity.tier # "Common"
            /\ Len(PrintedRows) = Count(commits).uncommon + Count(commits).rare

\* the default view printed the rare and the uncommon record around a common one
C7_Witness ==
    /\ Finished /\ ~args.all /\ args.only = "None" /\ ~args.count
    /\ Len(commits) = 3
    /\ commits[1].rarity.tier = "Rare"
    /\ commits[2].rarity.tier = "Common"
    /\ commits[3].rarity.tier = "Uncommon"
    /\ PrintedRows = << commits[1], commits[3] >>

\* positions of the log at which a line starts, as str::lines divides it
LineStarts(s) == { i \in 1..Len(s) : i = 1 \/ s[i - 1] = "\n" }

\* the line starting at position i, without its "\n" or "\r\n" ending
LineAt(s, i) ==
    LET stop == IF \E e \in i..Len(s) : s[e] = "\n"
                THEN CHOOSE e \in i..Len(s) : s[e] = "\n" /\ \A j \in i..(e - 1) : s[j] # "\n"
                ELSE Len(s) + 1
        cr == stop <= Len(s) /\ stop > i /\ s[stop - 1] = "\r"
    IN  SubSeq(s, i, IF cr THEN stop - 2 ELSE stop - 1)

WellFormed(l) == NumTokens(l) >= 2 /\ Token(l, 2) \in ValidStamps

WellFormedStarts(s) == { i \in LineStarts(s) : WellFormed(LineAt(s, i)) }

\* the lines of the log in input order, and their records, taken one by one
SequentialLines(s) == [k \in 1..Cardinality(LineStarts(s)) |-> LineAt(s, Kth(LineStarts(s), k))]

SequentialCommits(s) ==
    LET ls == SequentialLines(s) IN filter_map([k \in 1..Len(ls) |-> parse_commit(ls[k])])

\* C8: however the lines are divided among the workers and in whatever order
\* the workers finish, the collected records are the sequential result: the
\* i-th record comes from the i-th well-formed line, malformed lines are
\* dropped, and a record's rarity depends on its own hash alone.
C8_ParallelEqualsSequential ==
    (pc \in {"dispatch", "done"} /\ raw_output # <<>>) =>
        /\ commits = SequentialCommits(raw_output)
        /\ Len(commits) = Cardinality(WellFormedStarts(raw_output))
        /\ \A i \in 1..Len(commits) :
              LET l == LineAt(raw_output, Kth(WellFormedStarts(raw_output), i))
              IN  /\ commits[i].hash = Token(l, 1)
                  /\ commits[i].datetime = StampValue(Token(l, 2))
                  /\ JoinedBySingleSpaces(commits[i].author, l, 3)
                  /\ commits[i].rarity.tier = RuleTier(LowestRule(commits[i].hash))
                  /\ commits[i].rarity.explanation =
                         RuleExplanation(LowestRule(commits[i].hash))

\* a common line, a digit-prefixed line and a line without timestamp were
\* collected into two records
C8_Witness ==
    /\ pc = "dispatch"
    /\ Cardinality(LineStarts(raw_output)) = 3
    /\ LineAt(raw_output, Kth(LineStarts(raw_output), 3)) = HashAbc123
    /\ Len(commits) = 2
    /\ commits[1].rarity.tier = "Common" /\ commits[2].rarity.tier = "Uncommon"
    /\ Count(commits) = [total |-> 2, common |-> 1, uncommon |-> 1, rare |-> 0]

\* C9 as stated: whenever parsing yields zero records, the log being empty
\* or holding malformed lines only, every view prints "No commits found."
\* and no table.
C9_AsStated == (pc = "done" /\ commits = <<>>) => PrintedMessage("No commits found.")

\* C9 as amended: an empty log prints "No commits found." and no table under
\* every view. A non-empty log of malformed lines only prints no table under
\* --only T and the default view, which print "No T commits found." and "No
\* uncommon or rare commits found."; --all prints a table without rows and
\* --count the summary with all four counts zero.
C9_ZeroRecords ==
    (pc = "done" /\ commits = <<>>) =>
        IF raw_output = <<>> THEN PrintedMessage("No commits found.")
        ELSE IF args.only = "Common" THEN PrintedMessage("No Common commits found.")
        ELSE IF args.only = "Uncommon" THEN PrintedMessage("No Uncommon commits found.")
        ELSE IF args.only = "Rare" THEN PrintedMessage("No Rare commits found.")
        ELSE IF args.all THEN PrintedTable /\ PrintedRows = <<>>
        ELSE IF args.count
             THEN PrintedTable /\ PrintedRows =
                      << [total |-> 0, common |-> 0, uncommon |-> 0, rare |-> 0] >>
        ELSE PrintedMessage("No uncommon or rare commits found.")

\* --all on a non-empty log without a well-formed line printed an empty table
C9_Witness ==
    /\ pc = "done" /\ raw_output # <<>> /\ commits = <<>>
    /\ args.all /\ args.only = "None"
    /\ PrintedTable /\ PrintedRows = <<>>

TierMessage(T) ==
    CASE T = "Common" -> "No Common commits found."
      [] T = "Uncommon" -> "No Uncommon commits found."
      [] T = "Rare" -> "No Rare commits found."

\* a table of the rows, or the message when there is no row
TableOrMessage(C, K, text) ==
    IF K = {} THEN PrintedMessage(text)
    ELSE PrintedTable /\ SubsequenceAt(PrintedRows, C, K)

\* C10: on a non-empty log main produces exactly one view for every accepted
\* flag combination: the tier filter whenever --only is given, the full
\* table for --all without --only, the count summary for --count, the
\* not-common view without flags; an empty tier filter or not-common view
\* prints a message instead of a table, the tier filter's naming the tier
\* and differing from "No commits found.".
C10_ViewDispatch ==
    /\ args \in AcceptedArgs
    /\ (pc # "done" => stdout = <<>>)
    /\ Finished =>
        /\ Len(stdout) \in {1, 2}
        /\ IF args.only # "None"
           THEN /\ TableOrMessage(commits, TierPositions(commits, args.only),
                                  TierMessage(args.only))
                /\ TierMessage(args.only) # "No commits found."
           ELSE IF args.all
           THEN PrintedTable /\ PrintedRows = commits
           ELSE IF args.count
           THEN /\ PrintedTable
                /\ Len(PrintedRows) = 1
                /\ DOMAIN PrintedRows[1] = {"total", "common", "uncommon", "rare"}
                /\ PrintedRows[1].total = Len(commits)
           ELSE TableOrMessage(commits,
                               { j \in 1..Len(commits) : commits[j].rarity.tier # "Common" },
                               "No uncommon or rare commits found.")

\* --all --only Rare on a log without a rare commit printed the tier's message
C10_Witness ==
    /\ Finished
    /\ args.all /\ args.only = "Rare"
    /\ commits # <<>>
    /\ PrintedMessage("No Rare commits found.")

====
